---- MODULE Spec2Model ----
(***************************************************************************)
(* The AVL tree of package avlTree (generic Interface-keyed version):      *)
(* a heap of nodes linked by parent/left/right pointers, the avlTree       *)
(* struct {root, size}, and the public operations New, Insert, Delete,     *)
(* Search, Size and Inorder with the retrace and rotation helpers.         *)
(* Every helper is an operator on the heap that performs the assignments   *)
(* of the Go code one at a time, so pointer aliasing behaves as in Go.     *)
(* log.Fatal / assert failures, nil dereferences and slice index panics    *)
(* end the process: they are recorded in the variable fatal.               *)
(***************************************************************************)
EXTENDS Integers, Sequences, FiniteSets, TLC

\* ---- bounds of the exploration
NumKeys == 4
MaxGen == 2
MaxCount == 2
MaxCalls == 7

\* ---- program constants
\* the largest 16 bit value, where the largest 8 bit value is meant
MaxUint16 == 256 * 256 - 1

MaxUint8 == 255
\* the all-ones uint64 value 2^64-1, kept in two's complement form
MaxUint64 == -1

Keys == 1..NumKeys
Nil == 0
\* node addresses: MaxGen addresses are reserved for the nodes of each key,
\* so that a node removed from the tree but still referenced and a later
\* node of the same key are distinct objects
Ids == 1..(NumKeys * MaxGen)
IdsOf(k) == {(k - 1) * MaxGen + g : g \in 1..MaxGen}

OK == "none"

VARIABLES heap, root, size, fatal, op, arg, ret, ms, calls, it
vars == <<heap, root, size, fatal, op, arg, ret, ms, calls, it>>

\* ---- uint64 arithmetic of avlTree.size
\* a size that an insertion leaves as it was
KeepU64(s) == s

IncU64(s) == IF s = MaxUint64 THEN 0 ELSE s + 1
DecU64(s) == IF s = 0 THEN MaxUint64 ELSE s - 1

\* ---- uint8 arithmetic of node.count
\* a count that a deletion leaves as it was
KeepU8(c) == c

IncU8(c) == (c + 1) % 256
DecU8(c) == (c - 1) % 256

\* ---- heap access
Set(h, n, fld, v) == [h EXCEPT ![n][fld] = v]
R(h, f, n) == [h |-> h, f |-> f, n |-> n]
NilDeref == "nil pointer dereference"
Hang == "does not terminate"

newNode(i) == [count |-> 1, bf |-> 0, parent |-> Nil, left |-> Nil, right |-> Nil, value |-> i]

\* the Interface of the test type Int: the native integer order
LessThan(i, j) == i < j
GreaterThan(i, j) == i > j
EqualTo(i, j) == i = j

\* n.fld = m.g
Copy(h, n, fld, m, g) == Set(h, n, fld, h[m][g])

\* the child n.fld keeps the parent it had
KeepParent(h, n, fld) == h

\* if n.fld != nil { n.fld.parent = n }
Adopt(h, n, fld) == IF h[n][fld] # Nil THEN Set(h, h[n][fld], "parent", n) ELSE h

\* ---- rotations
\* right_right with the balance factors of the insertion case only: the case
\* of a Z with balance factor 0 is treated like the others
right_right_insertion_only(h, X) ==
    LET Z == h[X].right IN
    IF Z = Nil THEN R(h, NilDeref, Nil)
    ELSE IF h[Z].bf = -1 THEN R(h, "right left in right right case", Nil)
    ELSE
    LET h1 == Copy(h, Z, "parent", X, "parent")
        h2 == Set(h1, X, "parent", Z)
        h3 == Copy(h2, X, "right", Z, "left")
        h4 == Adopt(h3, X, "right")
        h5 == Set(h4, Z, "left", X)
    IN R(Set(Set(h5, X, "bf", 0), Z, "bf", 0), OK, Z)

right_right(h, X) ==
    LET Z == h[X].right
        balance(g) == IF g[Z].bf = 0
                      THEN Set(Set(g, X, "bf", 1), Z, "bf", -1)
                      ELSE Set(Set(g, X, "bf", 0), Z, "bf", 0)
    IN
    IF Z = Nil THEN R(h, NilDeref, Nil)
    ELSE IF h[Z].bf = -1 THEN R(h, "right left in right right case", Nil)
    ELSE
    LET h1 == Copy(h, Z, "parent", X, "parent")
        h2 == Set(h1, X, "parent", Z)
        h3 == Copy(h2, X, "right", Z, "left")
        h4 == Adopt(h3, X, "right")
        h5 == Set(h4, Z, "left", X)
    IN R(balance(h5), OK, Z)

left_left(h, X) ==
    LET Z == h[X].left
        balance(g) == IF g[Z].bf = 0
                      THEN Set(Set(g, X, "bf", -1), Z, "bf", 1)
                      ELSE Set(Set(g, X, "bf", 0), Z, "bf", 0)
    IN
    IF Z = Nil THEN R(h, NilDeref, Nil)
    ELSE IF h[Z].bf = 1 THEN R(h, "left right case in left left", Nil)
    ELSE
    LET h1 == Copy(h, Z, "parent", X, "parent")
        h2 == Set(h1, X, "parent", Z)
        h3 == Copy(h2, X, "left", Z, "right")
        h4 == Adopt(h3, X, "left")
        h5 == Set(h4, Z, "right", X)
    IN R(balance(h5), OK, Z)

right_left(h, X) ==
    LET Z == h[X].right IN
    IF Z = Nil THEN R(h, NilDeref, Nil)
    ELSE IF h[Z].bf # -1 THEN R(h, "right right in left right case", Nil)
    ELSE
    LET Y == h[Z].left
        balance(g) ==
            IF g[Y].bf = 0 THEN R(Set(Set(g, X, "bf", 0), Z, "bf", 0), OK, Y)
            ELSE IF g[Y].bf = -1
              THEN R(Set(Set(Set(g, X, "bf", 0), Z, "bf", 1), Y, "bf", 0), OK, Y)
            ELSE IF g[Y].bf = 1
              THEN R(Set(Set(Set(g, X, "bf", -1), Z, "bf", 0), Y, "bf", 0), OK, Y)
            ELSE R(g, "invalid balance factor for Y in right left case", Nil)
    IN
    IF Y = Nil THEN R(h, NilDeref, Nil)
    ELSE
    LET h1 == Copy(h, Y, "parent", X, "parent")
        h2 == Set(h1, Z, "parent", Y)
        h3 == Set(h2, X, "parent", Y)
        h4 == Copy(h3, X, "right", Y, "left")
        h5 == Adopt(h4, X, "right")
        h6 == Copy(h5, Z, "left", Y, "right")
        h7 == Adopt(h6, Z, "left")
        h8 == Set(h7, Y, "left", X)
        h9 == Set(h8, Y, "right", Z)
    IN balance(h9)

left_right(h, X) ==
    LET Z == h[X].left IN
    IF Z = Nil THEN R(h, NilDeref, Nil)
    ELSE IF h[Z].bf # 1 THEN R(h, "left left case in left right", Nil)
    ELSE
    LET Y == h[Z].right
        balance(g) ==
            IF g[Y].bf = 0 THEN R(Set(Set(g, X, "bf", 0), Z, "bf", 0), OK, Y)
            ELSE IF g[Y].bf = -1
              THEN R(Set(Set(Set(g, X, "bf", 0), Z, "bf", 1), Y, "bf", 0), OK, Y)
            ELSE IF g[Y].bf = 1
              THEN R(Set(Set(Set(g, X, "bf", -1), Z, "bf", 0), Y, "bf", 0), OK, Y)
            ELSE R(g, "unhandled balance factor for Y in left right case", Nil)
    IN
    IF Y = Nil THEN R(h, NilDeref, Nil)
    ELSE
    LET h1 == Copy(h, Y, "parent", X, "parent")
        h2 == Set(h1, Z, "parent", Y)
        h3 == Set(h2, X, "parent", Y)
        h4 == Copy(h3, X, "left", Y, "right")
        h5 == Adopt(h4, X, "left")
        h6 == Copy(h5, Z, "right", Y, "left")
        h7 == Adopt(h6, Z, "right")
        h8 == Set(h7, Y, "right", X)
        h9 == Set(h8, Y, "left", Z)
    IN balance(h9)

\* rebalance the subtree at n, then hook the new top under its parent
rebalance(h, n0) ==
    LET hook(g, n, p) ==
            IF p = Nil THEN R(g, OK, n)
            ELSE IF LessThan(g[p].value, g[n].value) THEN R(Set(g, p, "right", n), OK, n)
            ELSE IF GreaterThan(g[p].value, g[n].value) THEN R(Set(g, p, "left", n), OK, n)
            ELSE R(g, "unhandled parent/child case", Nil)
        rotated(rot) == IF rot.f # OK THEN rot ELSE hook(rot.h, rot.n, rot.h[rot.n].parent)
    IN IF h[n0].bf = 2 THEN
          IF h[n0].right = Nil THEN R(h, NilDeref, Nil)
          ELSE IF h[h[n0].right].bf = 0 \/ h[h[n0].right].bf = 1
               THEN rotated(right_right(h, n0)) ELSE rotated(right_left(h, n0))
       ELSE IF h[n0].bf = -2 THEN
          IF h[n0].left = Nil THEN R(h, NilDeref, Nil)
          ELSE IF h[h[n0].left].bf = -1 \/ h[h[n0].left].bf = 0
               THEN rotated(left_left(h, n0)) ELSE rotated(left_right(h, n0))
       ELSE R(h, "asked to rebalance but bf != 2", Nil)

\* iterate up to the root of the tree; a walk longer than the number of
\* nodes has entered a cycle of the parent chain
RECURSIVE upWalk(_, _, _)
upWalk(h, n, fuel) ==
    IF h[n].parent = Nil THEN R(h, OK, n)
    ELSE IF fuel = 0 THEN R(h, Hang, Nil)
    ELSE upWalk(h, h[n].parent, fuel - 1)

upToRoot(h, n) == upWalk(h, n, Cardinality(DOMAIN h))

\* int8 arithmetic of node.bf
Int8(x) == ((x + 128) % 256) - 128

\* ---- search
\* ordered descent to the node holding i or to the node under which i
\* would be attached; a descent longer than the number of nodes is in a cycle
RECURSIVE closestWalk(_, _, _, _)
closestWalk(h, n, i, fuel) ==
    IF ~EqualTo(i, h[n].value)
         /\ (   (LessThan(i, h[n].value) /\ h[n].left # Nil)
             \/ (GreaterThan(i, h[n].value) /\ h[n].right # Nil))
    THEN IF fuel = 0 THEN R(h, Hang, Nil)
         ELSE IF LessThan(i, h[n].value) THEN closestWalk(h, h[n].left, i, fuel - 1)
         ELSE closestWalk(h, h[n].right, i, fuel - 1)
    ELSE R(h, OK, n)

searchForClosest(h, rt, i) ==
    IF rt = Nil THEN R(h, OK, Nil) ELSE closestWalk(h, rt, i, Cardinality(DOMAIN h))

search(h, rt, i) ==
    LET exact(c) == IF c.f # OK THEN c
                    ELSE IF c.n = Nil \/ ~EqualTo(i, h[c.n].value) THEN R(h, OK, Nil)
                    ELSE c
    IN exact(searchForClosest(h, rt, i))

\* ---- insertion
updateBalanceFactorInsert(h, p, c) ==
    IF p = Nil THEN R(h, "parent is nil", Nil)
    ELSE
    LET h1 == IF h[p].left = c THEN Set(h, p, "bf", Int8(h[p].bf - 1))
              ELSE IF h[p].right = c THEN Set(h, p, "bf", Int8(h[p].bf + 1))
              ELSE h
        bad == h[p].left # c /\ h[p].right # c /\ ~(h[p].left = Nil /\ h[p].right = Nil)
    IN IF bad THEN R(h, "unhandled parent/child relationship", Nil)
       ELSE IF ~(h1[p].bf < 3 /\ h1[p].bf > -3) THEN R(h1, "balance factor invariant", Nil)
       ELSE R(h1, OK, p)

\* the loop of retraceInsert; every pass climbs one parent link, so a run
\* of more than RetraceFuel(h) passes is counted as one that never ends
RetraceFuel(h) == 2 * Cardinality(DOMAIN h) + 2
RetraceHang == "retrace does not terminate"

RECURSIVE retraceInsertLoop(_, _, _, _)
retraceInsertLoop(h, p0, c, fuel) ==
    LET climb(b) == IF b.f # OK THEN b
                    ELSE IF b.h[b.n].parent = Nil THEN b
                    ELSE IF b.h[b.n].bf = 0 THEN b
                    ELSE retraceInsertLoop(b.h, b.n, b.n, fuel - 1)
        updated(u) == IF u.f # OK THEN u
                      ELSE IF u.h[u.n].bf = 2 \/ u.h[u.n].bf = -2
                        THEN climb(rebalance(u.h, u.n))
                      ELSE climb(u)
    IN IF fuel = 0 THEN R(h, RetraceHang, Nil)
       ELSE updated(updateBalanceFactorInsert(h, h[p0].parent, c))

retraceInsert(h, c) ==
    LET top(l) == IF l.f # OK THEN l ELSE upToRoot(l.h, l.n)
    IN top(retraceInsertLoop(h, c, c, RetraceFuel(h)))

\* the address the allocator hands out for a new node holding i
NewId(h, i) == CHOOSE n \in IdsOf(i) \ DOMAIN h : \A m \in IdsOf(i) \ DOMAIN h : n <= m

\* the heap with the node newNode(i) at the address c
alloc(h, c, i) == [m \in DOMAIN h \cup {c} |-> IF m = c THEN newNode(i) ELSE h[m]]

\* the tree as the record [h, root, size, f], f the fatal message if any
T(h, rt, sz, f) == [h |-> h, root |-> rt, size |-> sz, f |-> f]

Insert(h, rt, sz, i) ==
    LET retraced(r) ==
            IF r.f # OK THEN T(h, rt, sz, r.f)
            ELSE T(r.h, IF r.h[r.n].parent = Nil THEN r.n ELSE rt, IncU64(sz), OK)
        link(h1, n, c) == retraced(retraceInsert(Set(h1, c, "parent", n), c))
        attach(h0, n, c) ==
            IF LessThan(i, h0[n].value) /\ h0[n].left = Nil THEN link(Set(h0, n, "left", c), n, c)
            ELSE IF GreaterThan(i, h0[n].value) /\ h0[n].right = Nil
              THEN link(Set(h0, n, "right", c), n, c)
            ELSE T(h, rt, sz, "invariant")
        at(n, c) ==
            IF EqualTo(h[n].value, i) THEN
                IF ~(h[n].count < MaxUint8) THEN T(h, rt, sz, "too many inserts of value")
                ELSE T(Set(h, n, "count", IncU8(h[n].count)), rt, sz, OK)
            ELSE attach(alloc(h, c, i), n, c)
        closest(s) == IF s.f # OK THEN T(h, rt, sz, s.f) ELSE at(s.n, NewId(h, i))
    IN IF ~(sz # MaxUint64) THEN T(h, rt, sz, "too many nodes in tree")
       ELSE IF rt = Nil THEN
           IF sz # 0 THEN T(h, rt, sz, "wrong size")
           ELSE T(alloc(h, NewId(h, i), i), NewId(h, i), IncU64(sz), OK)
       ELSE closest(searchForClosest(h, rt, i))

\* ---- deletion
\* replace node c with x at p
replaceNode(h, c, p, x) ==
    LET h1 == IF x # Nil THEN Set(h, x, "parent", p) ELSE h IN
    IF p = Nil THEN R(h1, OK, Nil)
    ELSE IF h1[p].left = c THEN R(Set(h1, p, "left", x), OK, Nil)
    ELSE IF h1[p].right = c THEN R(Set(h1, p, "right", x), OK, Nil)
    ELSE R(h1, "unhandled parent/child case", Nil)

\* the adjustment of retraceRemove with the signs retraceInsert uses: minus
\* one for a node that stands to the left of p, plus one for one to its right
updateBalanceFactorGrown(h, p, n) ==
    LET adjusted(h1) == IF ~(h1[p].bf < 3 /\ h1[p].bf > -3)
                          THEN R(h1, "balance factor invariant", Nil)
                        ELSE R(h1, OK, p)
    IN IF LessThan(h[p].value, h[n].value)
         THEN adjusted(Set(h, p, "bf", Int8(h[p].bf + 1)))
       ELSE IF GreaterThan(h[p].value, h[n].value)
         THEN adjusted(Set(h, p, "bf", Int8(h[p].bf - 1)))
       ELSE R(h, "unhandled parent/child relationship", Nil)

\* the adjustment retraceRemove makes to the balance factor of p, the
\* parent of the node n it walks up from, and the assertion that follows it
updateBalanceFactorRemove(h, p, n) ==
    LET adjusted(h1) == IF ~(h1[p].bf < 3 /\ h1[p].bf > -3)
                          THEN R(h1, "balance factor invariant", Nil)
                        ELSE R(h1, OK, p)
    IN IF LessThan(h[p].value, h[n].value)
         THEN adjusted(Set(h, p, "bf", Int8(h[p].bf - 1)))
       ELSE IF GreaterThan(h[p].value, h[n].value)
         THEN adjusted(Set(h, p, "bf", Int8(h[p].bf + 1)))
       ELSE R(h, "unhandled parent/child relationship", Nil)

\* the record of one pass of retraceRemove's loop that went on from n to
\* its parent p: whether the pass rebalanced, the child slot of p that held
\* n, how the keys of p and n compare, and p.bf before and after (u is the
\* result of the adjustment)
Step(g, u, n, p, rot) ==
    [n |-> n, p |-> p, rotated |-> rot,
     left |-> g[p].left = n, right |-> g[p].right = n,
     less |-> LessThan(g[p].value, g[n].value),
     greater |-> GreaterThan(g[p].value, g[n].value),
     before |-> g[p].bf, after |-> u.h[p].bf]

\* the passes a result of retraceRemove went through, first to last
Walk(r) == IF "walk" \in DOMAIN r THEN r.walk ELSE <<>>

Walked(r, steps) == [h |-> r.h, f |-> r.f, n |-> r.n, walk |-> steps \o Walk(r)]

\* the loop of retraceRemove; fuel as in retraceInsertLoop
RECURSIVE retraceRemoveLoop(_, _, _)
retraceRemoveLoop(h, n0, fuel) ==
    LET up(u, s) == IF u.f # OK THEN u
                    ELSE Walked(retraceRemoveLoop(u.h, u.n, fuel - 1), <<s>>)
        at(b, g, n, p, rot) ==
            IF ~(g[n].bf < 2 /\ g[n].bf > -2)
              THEN R(g, "node balance factor out of range after rebalance", Nil)
            ELSE IF g[n].bf = 1 \/ g[n].bf = -1 THEN b
            ELSE IF p = Nil THEN b
            ELSE up(updateBalanceFactorRemove(g, p, n),
                    Step(g, updateBalanceFactorRemove(g, p, n), n, p, rot))
        balanced(b, rot) ==
            IF b.f # OK THEN b ELSE at(b, b.h, b.n, b.h[b.n].parent, rot)
    IN IF fuel = 0 THEN R(h, RetraceHang, Nil)
       ELSE IF h[n0].bf = 2 \/ h[n0].bf = -2 THEN balanced(rebalance(h, n0), TRUE)
       ELSE balanced(R(h, OK, n0), FALSE)

retraceRemove(h, n) ==
    LET top(l) == IF l.f # OK THEN l ELSE Walked(upToRoot(l.h, l.n), Walk(l))
    IN top(retraceRemoveLoop(h, n, RetraceFuel(h)))

removeNoChildren(h, n) ==
    LET p == h[n].parent
        replaced(rp) == IF rp.f # OK THEN rp ELSE retraceRemove(rp.h, p)
    IN IF p = Nil THEN R(h, OK, Nil)
       ELSE IF h[p].right = n
         THEN replaced(replaceNode(Set(h, p, "bf", Int8(h[p].bf - 1)), n, p, Nil))
       ELSE replaced(replaceNode(Set(h, p, "bf", Int8(h[p].bf + 1)), n, p, Nil))

removeNoRightChildren(h, n) ==
    LET p == h[n].parent
        x == h[n].left
        replaced(rp) == IF rp.f # OK THEN rp
                        ELSE IF p = Nil /\ rp.h[x].parent = Nil THEN R(rp.h, OK, x)
                        ELSE retraceRemove(rp.h, x)
    IN replaced(replaceNode(h, n, p, x))

removeRightNoLeft(h, n) ==
    LET p == h[n].parent
        x == h[n].right
        replaced(rp) == IF rp.f # OK THEN rp
                        ELSE IF p = Nil /\ rp.h[x].parent = Nil THEN R(rp.h, OK, x)
                        ELSE retraceRemove(rp.h, x)
        shrunk(h1) == Set(h1, x, "bf", Int8(h1[n].bf - 1))
    IN replaced(replaceNode(shrunk(Copy(h, x, "left", n, "left")), n, p, x))

\* the left most node below c; a descent longer than the number of nodes
\* is in a cycle
RECURSIVE leftMost(_, _, _)
leftMost(h, c, fuel) ==
    IF h[c].left = Nil THEN R(h, OK, c)
    ELSE IF fuel = 0 THEN R(h, Hang, Nil)
    ELSE leftMost(h, h[c].left, fuel - 1)

\* the steps of removeComplex, last to first: the retrace, the swap of n's
\* right and left children into c, the replacement of n by c, the balance
\* factors, and the removal of c from under its parent
removeComplex(h, n) ==
    LET retrace(g, c, p) ==
            IF p = Nil /\ g[c].parent = Nil THEN R(g, OK, c) ELSE retraceRemove(g, p)
        swapRight(g, c, p) ==
            IF g[n].right = Nil THEN R(g, NilDeref, Nil)
            ELSE retrace(Copy(Set(g, g[n].right, "parent", c), c, "right", n, "right"), c, p)
        swapLeft(g, c, p) ==
            IF g[n].left = Nil THEN R(g, NilDeref, Nil)
            ELSE swapRight(Copy(Set(g, g[n].left, "parent", c), c, "left", n, "left"), c, p)
        replaced(rp, c, p) == IF rp.f # OK THEN rp ELSE swapLeft(rp.h, c, p)
        place(g, c, p) == replaced(replaceNode(g, n, g[n].parent, c), c, p)
        shrink(g, c, p) == place(Copy(Set(g, p, "bf", Int8(g[p].bf + 1)), c, "bf", n, "bf"), c, p)
        detach(c) ==
            IF h[c].parent = Nil THEN R(h, NilDeref, Nil)
            ELSE shrink(Set(h, h[c].parent, "left", h[c].right), c, h[c].parent)
        found(lm) == IF lm.f # OK THEN lm ELSE detach(lm.n)
    IN found(leftMost(h, h[n].right, Cardinality(DOMAIN h)))

\* the result also carries ret, the boolean Delete returns, and walk, the
\* passes of retraceRemove's loop the call went through
D(h, rt, sz, f, b) ==
    [h |-> h, root |-> rt, size |-> sz, f |-> f, ret |-> b, walk |-> <<>>]

Delete(h, rt, sz, i) ==
    LET removed(r) ==
            IF r.f # OK THEN [D(h, rt, sz, r.f, FALSE) EXCEPT !.walk = Walk(r)]
            ELSE IF r.n # Nil /\ r.h[r.n].parent # Nil
              THEN [D(h, rt, sz, "root parent not nil", FALSE) EXCEPT !.walk = Walk(r)]
            ELSE [D(r.h, r.n, DecU64(sz), OK, TRUE) EXCEPT !.walk = Walk(r)]
        remove(n) ==
            IF n = Nil THEN D(h, rt, sz, OK, FALSE)
            ELSE IF h[n].count > 1 THEN D(Set(h, n, "count", DecU8(h[n].count)), rt, sz, OK, TRUE)
            ELSE removed(IF h[n].right = Nil /\ h[n].left = Nil THEN removeNoChildren(h, n)
                         ELSE IF h[n].right = Nil THEN removeNoRightChildren(h, n)
                         ELSE IF h[n].right # Nil /\ h[h[n].right].left = Nil
                           THEN removeRightNoLeft(h, n)
                         ELSE IF h[n].right # Nil /\ h[h[n].right].left # Nil
                           THEN removeComplex(h, n)
                         ELSE R(h, "unhandled node removal", Nil))
        found(s) == IF s.f # OK THEN D(h, rt, sz, s.f, FALSE) ELSE remove(s.n)
    IN IF rt = Nil THEN D(h, rt, sz, OK, FALSE)
       ELSE IF EqualTo(h[rt].value, i) /\ h[rt].left = Nil /\ h[rt].right = Nil /\ h[rt].count = 1
         THEN IF sz # 1 THEN D(h, rt, sz, "root deletion, but size wrong", FALSE)
              ELSE D(h, Nil, 0, OK, TRUE)
       ELSE found(search(h, rt, i))

\* ---- the garbage collector: nodes no pointer chain from the root reaches
\* are gone (a removed node a parent pointer still names is kept)
RECURSIVE Closure(_, _)
Closure(h, S) ==
    LET N == (S \cup {h[n].parent : n \in S} \cup {h[n].left : n \in S}
                \cup {h[n].right : n \in S}) \ {Nil}
    IN IF N = S THEN S ELSE Closure(h, N)

Collect(h, roots) == [n \in Closure(h, roots \ {Nil}) |-> h[n]]

Ret(b, v) == [ok |-> b, val |-> v]

\* ---- in order visit
\* number of bits of a positive size: index of the highest set bit, plus one
RECURSIVE BitLen(_)
BitLen(s) == IF s = 0 THEN 0 ELSE 1 + BitLen(s \div 2)

\* make() refuses the length uint(math.Log2(0)) may convert to
HugeLen == -1

\* the values getHeight can return.  With bit 63 of size set, 1 << 64
\* is 0 and the conversion of Log2(0) = -Inf to uint depends on the platform:
\* 0 or a length no slice can have
getHeight(sz) ==
    IF sz = 0 THEN {0}
    ELSE IF sz > 0 THEN {BitLen(sz)}
    ELSE {0, HugeLen}

\* the closure Inorder returns: its stack {pile, top} and the pointer n;
\* out is the history of the values it has returned so far
NoIter == [active |-> FALSE, pile |-> <<>>, top |-> 0, n |-> Nil, out |-> <<>>]

Inorder(rt, len) ==
    [active |-> TRUE, pile |-> [j \in 1..len |-> Nil], top |-> 0, n |-> rt, out |-> <<>>]

\* one call of the closure: push the left spine, pop and return one value
RECURSIVE InorderNext(_, _)
InorderNext(h, s) ==
    IF s.top > 0 \/ s.n # Nil THEN
        IF s.n # Nil THEN
            IF s.top >= Len(s.pile) THEN [s |-> s, f |-> "index out of range", ret |-> Ret(FALSE, 0)]
            ELSE InorderNext(h, [s EXCEPT !.pile[s.top + 1] = s.n,
                                          !.top = s.top + 1,
                                          !.n = h[s.n].left])
        ELSE LET t == s.pile[s.top] IN
             [s |-> [s EXCEPT !.top = s.top - 1, !.n = h[t].right,
                              !.out = Append(s.out, h[t].value)],
              f |-> OK, ret |-> Ret(TRUE, h[t].value)]
    ELSE [s |-> s, f |-> OK, ret |-> Ret(FALSE, 0)]

\* ---- the state machine: one action per public call
Init ==
    /\ heap = [n \in {} |-> newNode(0)]
    /\ root = Nil
    /\ size = 0
    /\ fatal = OK
    /\ op = "New"
    /\ arg = 0
    /\ ret = Ret(TRUE, 0)
    /\ ms = [k \in Keys |-> 0]
    /\ calls = 0
    /\ it = NoIter

\* Insert(i) is explored while the key was inserted fewer than MaxCount
\* times more than deleted and an address is left for a new node of i;
\* at most MaxCalls calls of Insert and Delete are explored
CanInsert(i) ==
    LET room(s) == s.f = OK => IF s.n # Nil THEN heap[s.n].count < MaxCount
                               ELSE IdsOf(i) \ DOMAIN heap # {}
    IN /\ calls < MaxCalls
       /\ ms[i] < MaxCount
       /\ room(search(heap, root, i))

DoInsert(i) ==
    LET returned(t) ==
            /\ heap' = Collect(t.h, {t.root})
            /\ root' = t.root
            /\ size' = t.size
            /\ fatal' = t.f
            /\ ms' = IF t.f = OK THEN [ms EXCEPT ![i] = @ + 1] ELSE ms
    IN /\ fatal = OK
       /\ CanInsert(i)
       /\ returned(Insert(heap, root, size, i))
       /\ calls' = calls + 1
       /\ it' = NoIter
       /\ op' = "Insert"
       /\ arg' = i
       /\ ret' = Ret(TRUE, 0)

DoDelete(i) ==
    LET returned(t) ==
            /\ heap' = Collect(t.h, {t.root})
            /\ root' = t.root
            /\ size' = t.size
            /\ fatal' = t.f
            /\ ret' = Ret(t.ret, 0)
            /\ ms' = IF t.f = OK /\ t.ret THEN [ms EXCEPT ![i] = @ - 1] ELSE ms
    IN /\ fatal = OK
       /\ calls < MaxCalls
       /\ returned(Delete(heap, root, size, i))
       /\ calls' = calls + 1
       /\ it' = NoIter
       /\ op' = "Delete"
       /\ arg' = i

\* Search returns (value, nil) or (nil, *SearchError)
Search(h, rt, i) ==
    LET found(s) == IF s.f # OK THEN [f |-> s.f, ret |-> Ret(FALSE, 0)]
                    ELSE IF s.n = Nil THEN [f |-> OK, ret |-> Ret(FALSE, 0)]
                    ELSE [f |-> OK, ret |-> Ret(TRUE, h[s.n].value)]
    IN found(search(h, rt, i))

DoSearch(i) ==
    LET returned(s) == fatal' = s.f /\ ret' = s.ret
    IN /\ fatal = OK
       /\ returned(Search(heap, root, i))
       /\ op' = "Search"
       /\ arg' = i
       /\ UNCHANGED <<heap, root, size, ms, calls, it>>

Size(sz) == sz

DoSize ==
    /\ fatal = OK
    /\ op' = "Size"
    /\ arg' = 0
    /\ ret' = Ret(TRUE, Size(size))
    /\ UNCHANGED <<heap, root, size, fatal, ms, calls, it>>

\* t.Inorder(): a new closure over a stack of getHeight() slots
DoInorder ==
    /\ fatal = OK
    /\ \E len \in getHeight(size) :
          IF len = HugeLen
          THEN fatal' = "makeslice: len out of range" /\ it' = NoIter
          ELSE fatal' = OK /\ it' = Inorder(root, len)
    /\ op' = "Inorder"
    /\ arg' = 0
    /\ ret' = Ret(TRUE, 0)
    /\ UNCHANGED <<heap, root, size, ms, calls>>

\* one call of the closure of the latest Inorder(); the tree is not
\* modified while a closure is in use (Insert and Delete drop it), and a
\* closure that has returned more values than there are nodes is left alone
DoIterate ==
    LET returned(r) == it' = r.s /\ fatal' = r.f /\ ret' = r.ret
    IN /\ fatal = OK
       /\ it.active
       /\ Len(it.out) <= Cardinality(DOMAIN heap)
       /\ returned(InorderNext(heap, it))
       /\ op' = "Iterate"
       /\ arg' = 0
       /\ UNCHANGED <<heap, root, size, ms, calls>>

Next ==
    \/ \E i \in Keys : DoInsert(i)
    \/ \E i \in Keys : DoDelete(i)
    \/ \E i \in Keys : DoSearch(i)
    \/ DoSize
    \/ DoInorder
    \/ DoIterate

Spec == Init /\ [][Next]_vars

\* ---- structure of the tree as the child links from the root show it
\* a path that goes down more links than there are nodes is in a cycle and
\* has no height: NoHeight stands for it, a value no balance factor equals
NoHeight == 4 * NumKeys * MaxGen

RECURSIVE Height(_, _, _)
Height(h, n, fuel) ==
    IF n = Nil THEN 0
    ELSE IF fuel = 0 THEN NoHeight
    ELSE LET l == Height(h, h[n].left, fuel - 1)
             r == Height(h, h[n].right, fuel - 1)
         IN 1 + (IF l > r THEN l ELSE r)

\* nodes reachable from the root through child links
RECURSIVE Down(_, _)
Down(h, S) ==
    LET N == (S \cup {h[n].left : n \in S} \cup {h[n].right : n \in S}) \ {Nil}
    IN IF N = S THEN S ELSE Down(h, N)

Nodes == Down(heap, {root} \ {Nil})

Sub(n) == Down(heap, {n} \ {Nil})

\* the keys held by the nodes reachable from the root
StoredKeys == {heap[n].value : n \in Nodes}

\* ---- the claims

\* C1: after any sequence of Insert and Delete calls, every node reachable
\* from the root has a stored balance factor equal to the height of its right
\* subtree minus the height of its left subtree.
C1_BalanceFactorIsHeightDifference ==
    fatal = OK =>
        \A n \in Nodes :
            heap[n].bf = Height(heap, heap[n].right, Cardinality(DOMAIN heap))
                         - Height(heap, heap[n].left, Cardinality(DOMAIN heap))

\* C2: after any sequence of Insert and Delete calls, at every reachable node
\* all keys of the left subtree are smaller and all keys of the right subtree
\* are larger, and no key is held by two reachable nodes.
C2_BstOrderingAndUniqueKeys ==
    fatal = OK =>
        /\ \A n \in Nodes :
             /\ \A m \in Sub(heap[n].left) : LessThan(heap[m].value, heap[n].value)
             /\ \A m \in Sub(heap[n].right) : GreaterThan(heap[m].value, heap[n].value)
        /\ \A a, b \in Nodes : a # b => heap[a].value # heap[b].value

\* C3: after any sequence of Insert and Delete calls, the root's parent is nil
\* and every other reachable node n has n.parent.left == n or
\* n.parent.right == n.
C3_ParentNamesTheHolder ==
    fatal = OK =>
        /\ root # Nil => heap[root].parent = Nil
        /\ \A n \in Nodes \ {root} :
             /\ heap[n].parent # Nil
             /\ heap[heap[n].parent].left = n \/ heap[heap[n].parent].right = n

\* C4: Search(k) returns (k, nil) exactly when Insert(k) was called more often
\* than Delete(k) returned true, and a SearchError otherwise (ms is that
\* difference, kept side by side with the tree).
C4_SearchAgreesWithMultiset ==
    fatal = OK =>
        \A k \in Keys :
            Search(heap, root, k).ret = (IF ms[k] > 0 THEN Ret(TRUE, k) ELSE Ret(FALSE, 0))

\* C5: a Delete(k) that returns gives true exactly when k was present
\* (occurrence count at least 1) just before the call, and when it gives
\* false it leaves root, size and every node as they were.
C5_DeleteReturnsPresence ==
    [][(op' = "Delete" /\ calls' # calls /\ fatal' = OK) =>
            /\ ret'.ok = (ms[arg'] >= 1)
            /\ ~ret'.ok => heap' = heap /\ root' = root /\ size' = size]_vars

\* C6: Size() is the number of nodes reachable from the root, which is the
\* number of distinct keys present, and it is 0 exactly when the root is nil.
C6_SizeCountsReachableNodes ==
    fatal = OK =>
        /\ Size(size) = Cardinality(Nodes)
        /\ Size(size) = Cardinality({k \in Keys : ms[k] > 0})
        /\ (Size(size) = 0) <=> (root = Nil)

\* C7: whenever Insert or Delete has returned, every reachable node's stored
\* balance factor is -1, 0 or 1.
C7_BalanceFactorInRangeAtRest ==
    fatal = OK => \A n \in Nodes : heap[n].bf \in {-1, 0, 1}

\* C8: no sequence of Insert, Delete, Search and Inorder calls with counts
\* below 255 reaches one of the fatal invariant checks or dereferences nil.
FatalChecks ==
    { "unhandled parent/child relationship", "unhandled parent/child case",
      "balance factor invariant", "node balance factor out of range after rebalance",
      "asked to rebalance but bf != 2",
      "invalid balance factor for Y in right left case",
      "unhandled balance factor for Y in left right case",
      "unhandled node removal", "root parent not nil",
      "root deletion, but size wrong", NilDeref }

C8_NoFatalCheckReached ==
    (\A n \in DOMAIN heap : heap[n].count < MaxUint8) => fatal \notin FatalChecks

\* C9: the closure of Inorder() returns the distinct stored keys in strictly
\* ascending order, each once, Size() of them, and then reports the end of
\* the tree; it does not stop before that.
C9_InorderAscendingOnce ==
    op = "Iterate" =>
        /\ fatal = OK
        /\ \A a, b \in 1..Len(it.out) : a < b => it.out[a] < it.out[b]
        /\ ~ret.ok => /\ {it.out[a] : a \in 1..Len(it.out)} = StoredKeys
                      /\ Len(it.out) = Size(size)

\* k calls of Insert(x) in a row
RECURSIVE InsertTimes(_, _, _)
InsertTimes(t, x, k) ==
    IF k = 0 \/ t.f # OK THEN t
    ELSE InsertTimes(Insert(t.h, t.root, t.size, x), x, k - 1)

\* todo calls of Delete(x) in a row: each returns true, x is found and
\* counted once until the last, after which x is gone and the size is sz0
RECURSIVE DeletesCollapse(_, _, _, _)
DeletesCollapse(t, x, todo, sz0) ==
    LET deleted(d) ==
            /\ d.f = OK
            /\ d.ret
            /\ IF todo > 1
               THEN Search(d.h, d.root, x).ret = Ret(TRUE, x) /\ d.size = IncU64(sz0)
               ELSE /\ ~Search(d.h, d.root, x).ret.ok
                    /\ d.size = sz0
                    /\ \A n \in Down(d.h, {d.root} \ {Nil}) : d.h[n].value # x
            /\ DeletesCollapse(T(d.h, d.root, d.size, d.f), x, todo - 1, sz0)
    IN todo = 0 \/ deleted(Delete(t.h, t.root, t.size, x))

\* C10: from any reachable tree that does not hold x, k calls of Insert(x)
\* followed by k calls of Delete(x): every Delete returns true, x is found
\* and counted once after each of the first k-1, and after the k-th x is not
\* found, no reachable node holds it and the size is what it was.
C10_DuplicateCollapse ==
    LET collapses(t, x, k) == t.f = OK /\ DeletesCollapse(t, x, k, size)
    IN fatal = OK =>
        \A x \in Keys :
            (x \notin StoredKeys /\ IdsOf(x) \ DOMAIN heap # {}) =>
                \A k \in 1..MaxCount :
                    collapses(InsertTimes(T(heap, root, size, OK), x, k), x, k)

\* C11: Search(x) right after an Insert(x) that returned gives (x, nil), and
\* Search(x) right after a Delete(x) that removed the last occurrence of x
\* (it returned true and the node it found had count 1) gives a SearchError.
C11_RoundTrip ==
    [][/\ (op' = "Insert" /\ calls' # calls /\ fatal' = OK)
            => Search(heap', root', arg').ret = Ret(TRUE, arg')
       /\ (op' = "Delete" /\ calls' # calls /\ fatal' = OK /\ ret'.ok
             /\ search(heap, root, arg').n # Nil
             /\ heap[search(heap, root, arg').n].count = 1)
            => ~Search(heap', root', arg').ret.ok]_vars

\* the occurrence count Search's descent finds for k: 0 when k is not found
FoundCount(h, rt, k) ==
    LET counted(s) == IF s.f # OK \/ s.n = Nil THEN 0 ELSE h[s.n].count
    IN counted(search(h, rt, k))

\* C12: a Delete(x) that returns true leaves every other key as it was: a
\* key found before is found after with the same occurrence count, and a key
\* not found before is not found after.
C12_DeleteAffectsOnlyItsKey ==
    [][(op' = "Delete" /\ calls' # calls /\ fatal' = OK /\ ret'.ok)
          => \A k \in Keys \ {arg'} :
                FoundCount(heap', root', k) = FoundCount(heap, root, k)]_vars

\* ---- the trees that Insert alone builds
\* bounds of this exploration: keys 1..NumInsertKeys, at most MaxInserts calls
NumInsertKeys == 8
MaxInserts == 8

InsertKeys == 1..NumInsertKeys

InitInsertOnly ==
    /\ heap = [n \in {} |-> newNode(0)]
    /\ root = Nil
    /\ size = 0
    /\ fatal = OK
    /\ op = "New"
    /\ arg = 0
    /\ ret = Ret(TRUE, 0)
    /\ ms = [k \in InsertKeys |-> 0]
    /\ calls = 0
    /\ it = NoIter

\* t.Insert(i), for a key inserted fewer than MaxCount times so far
InsertOnly(i) ==
    LET returned(t) ==
            /\ heap' = Collect(t.h, {t.root})
            /\ root' = t.root
            /\ size' = t.size
            /\ fatal' = t.f
            /\ ms' = IF t.f = OK THEN [ms EXCEPT ![i] = @ + 1] ELSE ms
    IN /\ fatal = OK
       /\ calls < MaxInserts
       /\ ms[i] < MaxCount
       /\ returned(Insert(heap, root, size, i))
       /\ calls' = calls + 1
       /\ it' = NoIter
       /\ op' = "Insert"
       /\ arg' = i
       /\ ret' = Ret(TRUE, 0)

NextInsertOnly == \E i \in InsertKeys : InsertOnly(i)

SpecInsertOnly == InitInsertOnly /\ [][NextInsertOnly]_vars

\* C13: after Insert calls only, no call aborts, Size() is the number of
\* distinct keys inserted so far and Search finds every inserted key (and no
\* other).
C13_InsertOnlySizeAndSearch ==
    /\ fatal = OK
    /\ Size(size) = Cardinality({k \in InsertKeys : ms[k] > 0})
    /\ \A k \in InsertKeys :
         Search(heap, root, k).ret = (IF ms[k] > 0 THEN Ret(TRUE, k) ELSE Ret(FALSE, 0))

\* C13 witness: Insert calls of several distinct keys, one of them repeated,
\* have returned
C13_Witness ==
    /\ op = "Insert"
    /\ Cardinality({k \in InsertKeys : ms[k] > 0}) >= 6
    /\ \E k \in InsertKeys : ms[k] > 1

MinKey == CHOOSE k \in StoredKeys : \A j \in StoredKeys : k <= j

\* C15: Search, Size, Inorder and the calls of the closure leave root, size
\* and every node as they were; a fresh Inorder() starts at the root with an
\* empty stack whatever an earlier closure did, and the first value it
\* returns is the smallest stored key.
C15_ReadsDoNotModify ==
    [][/\ op' \in {"Search", "Size", "Inorder", "Iterate"}
            => heap' = heap /\ root' = root /\ size' = size
       /\ (op' = "Inorder" /\ fatal' = OK)
            => it'.active /\ it'.n = root /\ it'.top = 0 /\ it'.out = <<>>
       /\ (op' = "Iterate" /\ it.out = <<>> /\ root # Nil)
            => fatal' = OK /\ ret' = Ret(TRUE, MinKey)]_vars

\* the height of the tree: nodes on the longest path from the root down
TreeHeight == Height(heap, root, Cardinality(DOMAIN heap))

\* the least N + 1 that allows the height h = 1, 2, ...: the smallest integer
\* not below 2^(h / 1.44), so that h <= 1.44 * log2(N + 1) iff N + 1 is at
\* least the h-th entry
LeastCountForHeight == <<2, 3, 5, 7, 12, 18, 30, 48, 77, 124>>

\* C16: a tree built from N distinct keys by Insert calls alone has a height
\* of at most 1.44 * log2(N + 1).
C16_HeightBound ==
    fatal = OK =>
        \/ TreeHeight = 0
        \/ /\ TreeHeight <= Len(LeastCountForHeight)
           /\ Cardinality({k \in InsertKeys : ms[k] > 0}) + 1 >= LeastCountForHeight[TreeHeight]

\* the calls of a closure one after the other until it reports the end of
\* the tree or panics; more calls than nodes are not made
RECURSIVE IterateAll(_, _, _)
IterateAll(h, s, fuel) ==
    LET returned(r) == IF r.f # OK \/ ~r.ret.ok \/ fuel = 0 THEN r
                       ELSE IterateAll(h, r.s, fuel - 1)
    IN returned(InorderNext(h, s))

\* C18: getHeight() is at least the height of the tree, and a closure of
\* Inorder() called to the end never indexes its stack of getHeight() slots
\* at or beyond its capacity.
C18_GetHeightCoversHeight ==
    fatal = OK =>
        \A len \in getHeight(size) :
            /\ len >= TreeHeight
            /\ IterateAll(heap, Inorder(root, len), Cardinality(DOMAIN heap)).f = OK

\* ---- repeated insertion of the same keys, up to the limit of node.count
\* bound of this exploration: keys 1..NumCountKeys; the number of calls is
\* bounded by the assertion of Insert on count
NumCountKeys == 1

CountKeys == 1..NumCountKeys

InitCount ==
    /\ heap = [n \in {} |-> newNode(0)]
    /\ root = Nil
    /\ size = 0
    /\ fatal = OK
    /\ op = "New"
    /\ arg = 0
    /\ ret = Ret(TRUE, 0)
    /\ ms = [k \in CountKeys |-> 0]
    /\ calls = 0
    /\ it = NoIter

\* t.Insert(i), any number of times
CountInsert(i) ==
    LET returned(t) ==
            /\ heap' = Collect(t.h, {t.root})
            /\ root' = t.root
            /\ size' = t.size
            /\ fatal' = t.f
            /\ ms' = IF t.f = OK THEN [ms EXCEPT ![i] = @ + 1] ELSE ms
    IN /\ fatal = OK
       /\ returned(Insert(heap, root, size, i))
       /\ op' = "Insert"
       /\ arg' = i
       /\ ret' = Ret(TRUE, 0)
       /\ UNCHANGED <<calls, it>>

\* t.Delete(i)
CountDelete(i) ==
    LET returned(t) ==
            /\ heap' = Collect(t.h, {t.root})
            /\ root' = t.root
            /\ size' = t.size
            /\ fatal' = t.f
            /\ ret' = Ret(t.ret, 0)
            /\ ms' = IF t.f = OK /\ t.ret THEN [ms EXCEPT ![i] = @ - 1] ELSE ms
    IN /\ fatal = OK
       /\ returned(Delete(heap, root, size, i))
       /\ op' = "Delete"
       /\ arg' = i
       /\ UNCHANGED <<calls, it>>

NextCount ==
    \/ \E i \in CountKeys : CountInsert(i)
    \/ \E i \in CountKeys : CountDelete(i)

SpecCount == InitCount /\ [][NextCount]_vars

MaxSub == 2

\* the smallest tree of height k in which every node is balanced: a root over
\* such trees of heights k-1 (left) and k-2 (right).  Its nodes take the
\* addresses base+1 .. base+FibSize(k) in key order, and hold their address
RECURSIVE FibSize(_)
FibSize(k) == IF k <= 0 THEN 0 ELSE 1 + FibSize(k - 1) + FibSize(k - 2)

FibRoot(k, base) == IF k <= 0 THEN Nil ELSE base + FibSize(k - 1) + 1

Cell(id, bf, par, l, r) ==
    [id |-> id,
     node |-> [count |-> 1, bf |-> bf, parent |-> par, left |-> l, right |-> r, value |-> id]]

RECURSIVE FibCells(_, _, _)
FibCells(k, base, par) ==
    IF k <= 0 THEN {}
    ELSE {Cell(FibRoot(k, base), IF k >= 2 THEN -1 ELSE 0, par,
               FibRoot(k - 1, base), FibRoot(k - 2, FibRoot(k, base)))}
         \cup FibCells(k - 1, base, FibRoot(k, base))
         \cup FibCells(k - 2, FibRoot(k, base), FibRoot(k, base))

Max(a, b) == IF a > b THEN a ELSE b

\* X with bf +2 over A and Z, Z with bf -1 over Y and D, Y over B and C
RightLeftCells(base, par, hB, hC) ==
    LET hA == Max(hB, hC)
        X == base + FibSize(hA) + 1
        Y == X + FibSize(hB) + 1
        Z == Y + FibSize(hC) + 1
    IN {Cell(X, 2, par, FibRoot(hA, base), Z), Cell(Z, -1, X, Y, FibRoot(hA, Z)),
        Cell(Y, hC - hB, Z, FibRoot(hB, X), FibRoot(hC, Y))}
       \cup FibCells(hA, base, X) \cup FibCells(hB, X, Y)
       \cup FibCells(hC, Y, Y) \cup FibCells(hA, Z, Z)

\* X with bf -2 over Z and A, Z with bf +1 over D and Y, Y over B and C
LeftRightCells(base, par, hB, hC) ==
    LET hA == Max(hB, hC)
        Z == base + FibSize(hA) + 1
        Y == Z + FibSize(hB) + 1
        X == Y + FibSize(hC) + 1
    IN {Cell(X, -2, par, Z, FibRoot(hA, X)), Cell(Z, 1, X, FibRoot(hA, base), Y),
        Cell(Y, hC - hB, Z, FibRoot(hB, Z), FibRoot(hC, Y))}
       \cup FibCells(hA, base, Z) \cup FibCells(hB, Z, Y)
       \cup FibCells(hC, Y, Y) \cup FibCells(hA, X, X)

\* X with bf +2 over A and Z, Z with bf 0 or +1 over B and C
RightRightCells(base, par, hB, hC) ==
    LET X == base + FibSize(hC - 1) + 1
        Z == X + FibSize(hB) + 1
    IN {Cell(X, 2, par, FibRoot(hC - 1, base), Z),
        Cell(Z, hC - hB, X, FibRoot(hB, X), FibRoot(hC, Z))}
       \cup FibCells(hC - 1, base, X) \cup FibCells(hB, X, Z) \cup FibCells(hC, Z, Z)

\* X with bf -2 over Z and A, Z with bf 0 or -1 over B and C
LeftLeftCells(base, par, hB, hC) ==
    LET Z == base + FibSize(hB) + 1
        X == Z + FibSize(hC) + 1
    IN {Cell(X, -2, par, Z, FibRoot(hB - 1, X)),
        Cell(Z, hC - hB, X, FibRoot(hB, base), FibRoot(hC, Z))}
       \cup FibCells(hB, base, Z) \cup FibCells(hC, Z, Z) \cup FibCells(hB - 1, X, X)

\* the four cases rebalance tells apart, each with the heights hB, hC of the
\* two inner subtrees it can meet
Cases == {"right_right", "right_left", "left_left", "left_right"}

CaseFits(case, hB, hC) ==
    IF case = "right_right" THEN hC >= 1 /\ hC - hB \in {0, 1}
    ELSE IF case = "left_left" THEN hB >= 1 /\ hC - hB \in {0, -1}
    ELSE hC - hB \in {-1, 0, 1}

CaseCells(case, base, par, hB, hC) ==
    IF case = "right_right" THEN RightRightCells(base, par, hB, hC)
    ELSE IF case = "left_left" THEN LeftLeftCells(base, par, hB, hC)
    ELSE IF case = "right_left" THEN RightLeftCells(base, par, hB, hC)
    ELSE LeftRightCells(base, par, hB, hC)

\* the node X of the case, the only one whose bf is +2 or -2
TopOf(cells) == (CHOOSE c \in cells : c.node.bf \in {2, -2}).id

\* the height of the subtree at X before the insertion that unbalanced it
HeightBefore(case, hB, hC) ==
    IF case = "right_right" THEN hC + 1
    ELSE IF case = "left_left" THEN hB + 1
    ELSE Max(hB, hC) + 2

\* where X hangs: it is the root, or the right or the left child of a node P
\* whose other subtree is as high as X's was
Places == {"root", "right child", "left child"}

PlacedCells(case, place, hB, hC) ==
    LET h == HeightBefore(case, hB, hC)
        low == FibSize(h) + 1
        first == CaseCells(case, 0, Nil, hB, hC)
        high == Cardinality(first) + 1
    IN IF place = "root" THEN first
       ELSE IF place = "right child"
         THEN {Cell(low, 0, Nil, FibRoot(h, 0), TopOf(CaseCells(case, low, low, hB, hC)))}
              \cup FibCells(h, 0, low) \cup CaseCells(case, low, low, hB, hC)
       ELSE {Cell(high, 0, Nil, TopOf(CaseCells(case, 0, high, hB, hC)), FibRoot(h, high))}
            \cup CaseCells(case, 0, high, hB, hC) \cup FibCells(h, high, high)

HeapOf(cells) == [n \in {c.id : c \in cells} |-> (CHOOSE c \in cells : c.id = n).node]

InitRotate ==
    \E case \in Cases, place \in Places, hB \in 0..MaxSub, hC \in 0..MaxSub :
        /\ CaseFits(case, hB, hC)
        /\ heap = HeapOf(PlacedCells(case, place, hB, hC))
        /\ root = (CHOOSE c \in PlacedCells(case, place, hB, hC) : c.node.parent = Nil).id
        /\ size = Cardinality(PlacedCells(case, place, hB, hC))
        /\ fatal = OK
        /\ op = "rebalance"
        /\ arg = TopOf(PlacedCells(case, place, hB, hC))
        /\ ret = Ret(TRUE, 0)
        /\ ms = [k \in Keys |-> 0]
        /\ calls = 0
        /\ it = NoIter

\* the rotation rebalance(X) chooses, applied to X = arg
Rotated(name, r) ==
    /\ heap' = r.h
    /\ fatal' = r.f
    /\ root' = IF root = arg /\ r.f = OK THEN r.n ELSE root
    /\ ret' = Ret(TRUE, r.n)
    /\ op' = name
    /\ UNCHANGED <<size, arg, ms, calls, it>>

Rotate_right_right ==
    /\ op = "rebalance"
    /\ heap[arg].bf = 2
    /\ heap[heap[arg].right].bf = 0 \/ heap[heap[arg].right].bf = 1
    /\ Rotated("right_right", right_right(heap, arg))

Rotate_right_left ==
    /\ op = "rebalance"
    /\ heap[arg].bf = 2
    /\ ~(heap[heap[arg].right].bf = 0 \/ heap[heap[arg].right].bf = 1)
    /\ Rotated("right_left", right_left(heap, arg))

Rotate_left_left ==
    /\ op = "rebalance"
    /\ heap[arg].bf = -2
    /\ heap[heap[arg].left].bf = -1 \/ heap[heap[arg].left].bf = 0
    /\ Rotated("left_left", left_left(heap, arg))

Rotate_left_right ==
    /\ op = "rebalance"
    /\ heap[arg].bf = -2
    /\ ~(heap[heap[arg].left].bf = -1 \/ heap[heap[arg].left].bf = 0)
    /\ Rotated("left_right", left_right(heap, arg))

NextRotate ==
    \/ Rotate_right_right
    \/ Rotate_right_left
    \/ Rotate_left_left
    \/ Rotate_left_right

SpecRotate == InitRotate /\ [][NextRotate]_vars

\* the stored balance factor of n is the height of its right subtree minus
\* the height of its left subtree
BfExact(n) ==
    heap[n].bf = Height(heap, heap[n].right, Cardinality(DOMAIN heap))
                 - Height(heap, heap[n].left, Cardinality(DOMAIN heap))

\* C19: after right_left or left_right on an X, Z, Y whose stored balance
\* factors were exact, the stored balance factors of Y (the new top) and of
\* X and Z (its children) are exact again.
C19_DoubleRotationBfExact ==
    op \in {"right_left", "left_right"} =>
        /\ fatal = OK
        /\ BfExact(ret.val)
        /\ BfExact(heap[ret.val].left)
        /\ BfExact(heap[ret.val].right)

\* C20: after right_right or left_left on an X and Z whose stored balance
\* factors were exact, the stored balance factors of Z (the new top) and of X
\* are exact again.
C20_SingleRotationBfExact ==
    op \in {"right_right", "left_left"} =>
        /\ fatal = OK
        /\ BfExact(ret.val)
        /\ BfExact(arg)

\* C20 witness: a single rotation has run on a Z whose balance factor was 0
\* (the case a deletion leaves), below a parent
C20_Witness ==
    /\ op \in {"right_right", "left_left"}
    /\ fatal = OK
    /\ heap[ret.val].bf # 0
    /\ heap[ret.val].parent # Nil

\* C21: when Delete removes a node that has a right child (the right child
\* takes its place, or the in-order successor does), every subtree it
\* re-attaches has its parent set to its new owner before Delete returns: at
\* the return no node reachable from the root names the removed node as its
\* parent, and every reachable node but the root is held in a child slot of
\* the node its parent field names.
C21_ReattachedSubtreesNameTheirOwner ==
    [][(/\ op' = "Delete" /\ calls' # calls /\ fatal' = OK /\ ret'.ok
        /\ search(heap, root, arg').n # Nil
        /\ heap[search(heap, root, arg').n].count = 1
        /\ heap[search(heap, root, arg').n].right # Nil)
       => \A m \in Down(heap', {root'} \ {Nil}) :
            /\ heap'[m].parent # search(heap, root, arg').n
            /\ m # root' => /\ heap'[m].parent # Nil
                            /\ \/ heap'[heap'[m].parent].left = m
                               \/ heap'[heap'[m].parent].right = m]_vars

\* ---- Delete with the passes of its retrace kept
\* bounds of this exploration: keys 1..NumRetraceKeys, at most
\* MaxRetraceCalls calls of Insert and Delete
NumRetraceKeys == 7
MaxRetraceCalls == 8

RetraceKeys == 1..NumRetraceKeys

InitRetrace ==
    /\ heap = [n \in {} |-> newNode(0)]
    /\ root = Nil
    /\ size = 0
    /\ fatal = OK
    /\ op = "New"
    /\ arg = 0
    /\ ret = Ret(TRUE, 0)
    /\ ms = [k \in RetraceKeys |-> 0]
    /\ calls = 0
    /\ it = NoIter

\* t.Insert(i), for a key that is not in the tree and has an address left
RetraceInsert(i) ==
    LET returned(t) ==
            /\ heap' = Collect(t.h, {t.root})
            /\ root' = t.root
            /\ size' = t.size
            /\ fatal' = t.f
            /\ ms' = IF t.f = OK THEN [ms EXCEPT ![i] = @ + 1] ELSE ms
    IN /\ fatal = OK
       /\ calls < MaxRetraceCalls
       /\ ms[i] = 0
       /\ IdsOf(i) \ DOMAIN heap # {}
       /\ returned(Insert(heap, root, size, i))
       /\ calls' = calls + 1
       /\ it' = NoIter
       /\ op' = "Insert"
       /\ arg' = i
       /\ ret' = Ret(TRUE, 0)

\* t.Delete(i), its return value joined by the passes retraceRemove's loop
\* went through during the call
RetraceDelete(i) ==
    LET returned(t) ==
            /\ heap' = Collect(t.h, {t.root})
            /\ root' = t.root
            /\ size' = t.size
            /\ fatal' = t.f
            /\ ret' = [ok |-> t.ret, val |-> 0, walk |-> t.walk]
            /\ ms' = IF t.f = OK /\ t.ret THEN [ms EXCEPT ![i] = @ - 1] ELSE ms
    IN /\ fatal = OK
       /\ calls < MaxRetraceCalls
       /\ returned(Delete(heap, root, size, i))
       /\ calls' = calls + 1
       /\ it' = NoIter
       /\ op' = "Delete"
       /\ arg' = i

NextRetrace ==
    \/ \E i \in RetraceKeys : RetraceInsert(i)
    \/ \E i \in RetraceKeys : RetraceDelete(i)

SpecRetrace == InitRetrace /\ [][NextRetrace]_vars

\* C22 as stated: in every pass of retraceRemove's loop that goes on from a
\* node n to its parent, the parent's balance factor is decremented by 1 if n
\* is the parent's left child and incremented by 1 if n is its right child.
C22_DecrementForLeftChild ==
    op = "Delete" =>
        \A j \in 1..Len(ret.walk) :
            /\ ret.walk[j].left => ret.walk[j].after = ret.walk[j].before - 1
            /\ ret.walk[j].right => ret.walk[j].after = ret.walk[j].before + 1

\* C22 as amended: in every pass of retraceRemove's loop that goes on from a
\* node n to its parent, the parent's balance factor is decremented by 1 if
\* the parent's key is less than n's (n stands to the parent's right) and
\* incremented by 1 if the parent's key is greater (n stands to its left).
C22_DecrementUnderSmallerParent ==
    op = "Delete" =>
        \A j \in 1..Len(ret.walk) :
            /\ ret.walk[j].less => ret.walk[j].after = ret.walk[j].before - 1
            /\ ret.walk[j].greater => ret.walk[j].after = ret.walk[j].before + 1

\* C22 witness: the first Delete after Insert calls only has returned; its
\* retrace rebalanced a right child and went on from it to its parent, whose
\* key is smaller
C22_Witness ==
    /\ op = "Delete"
    /\ fatal = OK
    /\ calls = size + 2
    /\ Len(ret.walk) >= 1
    /\ ret.walk[1].rotated /\ ret.walk[1].right /\ ret.walk[1].less
    /\ ret.walk[1].after = ret.walk[1].before - 1

\* C23: every Insert, Delete, Search and Inorder-iterator call terminates on
\* any tree Insert and Delete calls reach: no call runs a descent, a retrace
\* loop, a successor search or a climb to the root without end, the child
\* links below the root hold no cycle and neither does the parent chain of
\* any node reachable from the root.
C23_EveryCallTerminates ==
    /\ fatal # Hang
    /\ fatal # RetraceHang
    /\ Height(heap, root, Cardinality(DOMAIN heap)) < NoHeight
    /\ \A n \in Nodes : upWalk(heap, n, Cardinality(DOMAIN heap)).f = OK

\* C24: after Insert calls only, rotations included, BST ordering holds at
\* every node, every node but the root is held in a child slot of the node its
\* parent field names, and the root field is the one node with a nil parent,
\* from which every stored node (one for each key inserted) is reachable.
C24_InsertOnlyStructureSound ==
    /\ fatal = OK
    /\ \A n \in Nodes :
         /\ \A m \in Sub(heap[n].left) : LessThan(heap[m].value, heap[n].value)
         /\ \A m \in Sub(heap[n].right) : GreaterThan(heap[m].value, heap[n].value)
    /\ \A n \in Nodes \ {root} :
         /\ heap[n].parent \in Nodes
         /\ heap[heap[n].parent].left = n \/ heap[heap[n].parent].right = n
    /\ \A n \in DOMAIN heap : heap[n].parent = Nil <=> n = root
    /\ Nodes = DOMAIN heap
    /\ Cardinality(Nodes) = Cardinality({k \in InsertKeys : ms[k] > 0})
    /\ StoredKeys = {k \in InsertKeys : ms[k] > 0}

\* C24 witness: an Insert has returned that ran a double rotation below the
\* root: the key it inserted is held by a node with a parent and two children
C24_Witness ==
    /\ op = "Insert"
    /\ fatal = OK
    /\ size >= 6
    /\ \E n \in Nodes : /\ heap[n].value = arg
                        /\ heap[n].count = 1
                        /\ heap[n].parent # Nil
                        /\ heap[n].left # Nil
                        /\ heap[n].right # Nil

====
